---- MODULE Spec2Model ----
(***************************************************************************)
(* The script-tag loader (useScriptTag) and the style-tag loader           *)
(* (useStyleTag) of packages/core, as state machines over one shared       *)
(* document, and the click-outside directive (vOnClickOutside).  Elements, *)
(* promises and registrations are numbered in creation order; 0 stands for *)
(* null or undefined (no element, no promise, no function) and for the     *)
(* value false a promise resolves with when there is no document.          *)
(***************************************************************************)
EXTENDS Integers, Sequences, FiniteSets, TLC

\* ---------------------------------------------------------------- bounds
\* The loadScript operations (promises) the script loaders may start in one
\* run; each creates at most one script element.
MaxOps == 2
\* The style elements the style loaders may create in one run.
MaxStyles == 2
\* The calls and events of one run of the script and style loaders together.
MaxSteps == 5

\* The onClickOutside registrations the directive may make in one run.
MaxRegs == 3
\* The bindings of the directive one element may carry at a time (a component
\* bound with the directive hands it on to its root element, which may carry
\* the directive itself).
MaxBindings == 2

\* The script loaders (useScriptTag instances) sharing the document.
ScriptLoaders == {"A", "B"}
\* The values the reactive src of a script loader takes.
Srcs == {"a.js", "b.js"}
\* The script loaders whose src is a ref; the others were given a plain string.
ReactiveSrc == {"A"}
\* The events a script element emits.
Events == {"load", "error", "abort"}

\* The style loaders (useStyleTag instances) sharing the document.
StyleLoaders == {"S", "T"}
\* The values of the id option of a style loader.
StyleIds == {"x", "y"}
\* The values assigned to the css ref of a style loader.
CssValues == {"p", "q"}

\* The elements the directive is bound to.
Els == {"div", "nav"}
\* The values of a binding: a handler function, or [handler, options] with
\* options that leave capture out or set it.
BindingValues ==
    {[form |-> "function", capture |-> "unset"]}
        \cup {[form |-> "array", capture |-> c] : c \in {"unset", "true", "false"}}

VARIABLES
    hasDoc,     \* hasDoc[l]: the loader's document option is a document (not undefined)
    src,        \* src[l]: the current value of the loader's reactive src
    scripts,    \* the script elements created so far, in creation order: src, attached
                \* (in the document), loaded (data-loaded), emitted (none, load, failed)
    promises,   \* the promises created by loadScript so far, in creation order: loader,
                \* wait (waitForScriptLoad), el (the element listened to), created
                \* (el was created by the operation), state, value
    _promise,   \* _promise[l]: the loader's memoized promise (0: null)
    scriptTag,  \* scriptTag[l]: the loader's scriptTag ref (0: null)
    styleDoc,   \* styleDoc[s]: the style loader's document option is a document
    id,         \* id[s]: the style loader's id
    css,        \* css[s]: the current value of the loader's cssRef
    styles,     \* the style elements created so far, in creation order: id, attached, text
    isLoaded,   \* isLoaded[s]: the style loader's isLoaded ref
    watching,   \* watching[s]: the element the watcher that `stop` stops writes to
                \* (0: that watcher is stopped, or stop is still the empty function)
    watchers,   \* watchers[s]: the active watchers of cssRef the loader has started
    seen,       \* seen[s]: the css value the watcher's callback last ran with
    opened,     \* opened[s]: style loader s had load() called since its last unload()
    immediate,  \* immediate[l]: the loader's immediate option
    manual,     \* manual[l]: the loader's manual option
    phase,      \* phase[l]: where the component that owns the loader is in its life
                \* (setup, mounted, unmounted)
    registrations,          \* the onClickOutside registrations made so far, in order:
                            \* el (the target), capture, active (not cancelled)
    __onClickOutside_stop,  \* __onClickOutside_stop[el]: the registration whose
                            \* cancellation function is stored on el (0: undefined)
    bound,      \* bound[el]: the mounted bindings of the directive on el
    last,       \* the call or event that made the last step, with what it returned
    steps       \* the steps taken so far where script and style loaders run together
                \* (they are counted from 0; below 0 they are not counted)

scriptVars == <<hasDoc, src, scripts, promises, _promise, scriptTag>>

styleVars == <<styleDoc, id, css, styles, isLoaded, watching, watchers, seen>>

lifeVars == <<immediate, manual, phase>>

dirVars == <<registrations, __onClickOutside_stop, bound>>

vars == <<scriptVars, styleVars, lifeVars, dirVars, opened, last, steps>>

\* The label of a step: the operation, its loader, its argument, the promise it
\* returned (ret) and whether it ran loadScript (fresh; of a style loader's
\* load(): whether it is the first load() since the loader's last unload()).
Label(op, l, w, p, f) ==
    [op |-> op, loader |-> l, wait |-> w, ret |-> p, fresh |-> f]

\* One more step of the run: counted, and bounded, where the count started at 0.
\* No step changes an option; the step of a lifecycle hook moves the loader's
\* component on.
Tick ==
    /\ steps < MaxSteps
    /\ steps' = IF steps < 0 THEN steps ELSE steps + 1
    /\ UNCHANGED <<immediate, manual, dirVars>>
    /\ phase' = IF last'.op \in {"mounted", "unmounted"}
                THEN [phase EXCEPT ![last'.loader] = last'.op]
                ELSE phase

Min(S) == CHOOSE x \in S : \A y \in S : x <= y

\* A selector that matches no element.
QuerySelectorMisses(s) == 0

\* document.querySelector(`script[src="${s}"]`): the first script element in
\* the document whose src is s, 0 when there is none.
QuerySelector(s) ==
    LET hits == {e \in 1..Len(scripts) : scripts[e].attached /\ scripts[e].src = s}
    IN  IF hits = {} THEN 0 ELSE Min(hits)

\* resolve(v) of a promise: a settled promise stays as it is.
Resolve(pr, v) ==
    IF pr.state = "pending" THEN [pr EXCEPT !.state = "resolved", !.value = v] ELSE pr

\* An error or abort listener that does not reject.
RejectDropped(pr) == pr

\* reject(event) of a promise: a settled promise stays as it is.
Reject(pr) ==
    IF pr.state = "pending" THEN [pr EXCEPT !.state = "rejected"] ELSE pr

\* loadScript without the data-loaded branch: only a caller that does not wait
\* is resolved before it returns.
ResolvesOnlyUnwaited(found, w) == ~w

\* loadScript without the closing waitForScriptLoad test: only an element found
\* marked data-loaded resolves before it returns.
ResolvesOnlyLoaded(found, w) == found # 0 /\ scripts[found].loaded

\* loadScript that resolves every promise as soon as the element is in the
\* document.
ResolvesOnAppend(found, w) == TRUE

\* loadScript that takes any element it found for a loaded one.
ResolvesOnFound(found, w) == found # 0 \/ ~w

\* Whether loadScript resolves before it returns: the element was found marked
\* data-loaded, or the caller does not wait for the load event.
ResolvesAtOnce(found, w) ==
    (found # 0 /\ scripts[found].loaded) \/ ~w

\* loadScript(waitForScriptLoad) of loader l, called by op (load(), or the
\* mounted hook): the promise executor runs to its end before the promise is
\* returned.
LoadScriptBy(op, l, w) ==
    LET p == Len(promises) + 1
        found == QuerySelector(src[l])
        el == IF found = 0 THEN Len(scripts) + 1 ELSE found
        fresh == [loader |-> l, wait |-> w, el |-> el, created |-> (found = 0),
                  state |-> "pending", value |-> 0]
    IN  /\ Len(promises) < MaxOps
        /\ _promise' = [_promise EXCEPT ![l] = p]
        /\ last' = Label(op, l, w, p, TRUE)
        /\ Tick
        /\ IF ~hasDoc[l]
           THEN /\ promises' = Append(promises,
                       [loader |-> l, wait |-> w, el |-> 0, created |-> FALSE,
                        state |-> "resolved", value |-> 0])
                /\ UNCHANGED <<scripts, scriptTag>>
           ELSE /\ scripts' = IF found = 0
                              THEN Append(scripts,
                                     [src |-> src[l], attached |-> TRUE,
                                      loaded |-> FALSE, emitted |-> "none"])
                              ELSE scripts
                /\ promises' = Append(promises,
                       IF ResolvesAtOnce(found, w) THEN Resolve(fresh, el) ELSE fresh)
                /\ scriptTag' = IF ResolvesAtOnce(found, w)
                                THEN [scriptTag EXCEPT ![l] = el]
                                ELSE scriptTag
        /\ UNCHANGED <<hasDoc, src, styleVars, opened>>

\* loadScript as load() calls it.
LoadScript(l, w) == LoadScriptBy("load", l, w)

\* load without the memoized promise: every call runs loadScript.
LoadNoMemo(l, w) == LoadScript(l, w)

\* load that runs loadScript again once the memoized promise was rejected.
LoadRetries(l, w) ==
    IF _promise[l] = 0 \/ promises[_promise[l]].state = "rejected"
    THEN LoadScript(l, w)
    ELSE /\ last' = Label("load", l, w, _promise[l], FALSE)
         /\ Tick
         /\ UNCHANGED <<scriptVars, styleVars, opened>>

\* load(waitForScriptLoad) of loader l, called by op: the singleton wrapper
\* of loadScript.
LoadBy(op, l, w) ==
    IF _promise[l] = 0
    THEN LoadScriptBy(op, l, w)
    ELSE /\ last' = Label(op, l, w, _promise[l], FALSE)
         /\ Tick
         /\ UNCHANGED <<scriptVars, styleVars, opened>>

\* load(waitForScriptLoad) called by the user of loader l.
Load(l, w) == LoadBy("load", l, w)

\* unload that clears the memoized promise before it tests the document.
UnloadClearsFirst(l) ==
    /\ last' = Label("unload", l, FALSE, 0, FALSE)
    /\ Tick
    /\ _promise' = [_promise EXCEPT ![l] = 0]
    /\ scriptTag' = [scriptTag EXCEPT ![l] = 0]
    /\ scripts' = IF hasDoc[l] /\ QuerySelector(src[l]) # 0
                  THEN [scripts EXCEPT ![QuerySelector(src[l])].attached = FALSE]
                  ELSE scripts
    /\ UNCHANGED <<hasDoc, src, promises, styleVars, opened>>

\* unload that cancels the operation in flight: it rejects the memoized promise.
UnloadCancels(l) ==
    /\ last' = Label("unload", l, FALSE, 0, FALSE)
    /\ Tick
    /\ UNCHANGED <<styleVars, opened>>
    /\ IF ~hasDoc[l]
       THEN UNCHANGED scriptVars
       ELSE LET el == QuerySelector(src[l])
            IN  /\ _promise' = [_promise EXCEPT ![l] = 0]
                /\ scriptTag' = [scriptTag EXCEPT ![l] = 0]
                /\ scripts' = IF el = 0 THEN scripts
                              ELSE [scripts EXCEPT ![el].attached = FALSE]
                /\ promises' = IF _promise[l] = 0 THEN promises
                                ELSE [promises EXCEPT
                                        ![_promise[l]] = Reject(promises[_promise[l]])]
                /\ UNCHANGED <<hasDoc, src>>

\* unload() of loader l, called by op (unload(), or the unmounted hook).
UnloadBy(op, l) ==
    /\ last' = Label(op, l, FALSE, 0, FALSE)
    /\ Tick
    /\ UNCHANGED <<styleVars, opened>>
    /\ IF ~hasDoc[l]
       THEN UNCHANGED scriptVars
       ELSE LET el == QuerySelector(src[l])
            IN  /\ _promise' = [_promise EXCEPT ![l] = 0]
                /\ scriptTag' = [scriptTag EXCEPT ![l] = 0]
                /\ scripts' = IF el = 0 THEN scripts
                              ELSE [scripts EXCEPT ![el].attached = FALSE]
                /\ UNCHANGED <<hasDoc, src, promises>>

\* unload() called by the user of loader l.
Unload(l) == UnloadBy("unload", l)

\* The listeners loadScript registered on element e: one set (error, abort,
\* load) for every operation that found or created e.  unload() removes none
\* of them, and an element emits whether or not it is still in the document.
Listeners(e) == {p \in 1..Len(promises) : promises[p].el = e}

\* What an element keeps of the event it emitted: error and abort run listeners
\* that do the same, and neither leaves anything else behind.
Fired(ev) == IF ev = "load" THEN "load" ELSE "failed"

\* Element e emits ev: every listener registered on it runs.  The load listener
\* marks the element data-loaded and calls resolveWithElement; the error and
\* abort listeners reject.
Emit(e, ev) ==
    /\ e \in 1..Len(scripts)
    /\ scripts[e].emitted = "none"
    /\ last' = Label("emit", "-", FALSE, 0, FALSE)
    /\ Tick
    /\ scripts' = [scripts EXCEPT ![e].emitted = Fired(ev),
                                  ![e].loaded = (ev = "load" /\ Listeners(e) # {})]
    /\ promises' = [p \in 1..Len(promises) |->
                      IF p \in Listeners(e)
                      THEN IF ev = "load" THEN Resolve(promises[p], e)
                           ELSE Reject(promises[p])
                      ELSE promises[p]]
    /\ scriptTag' = [l \in ScriptLoaders |->
                       IF ev = "load" /\ \E p \in Listeners(e) : promises[p].loader = l
                       THEN e ELSE scriptTag[l]]
    /\ UNCHANGED <<hasDoc, src, _promise, styleVars, opened>>

\* The reactive src of loader l is assigned another value.
ChangeSrc(l, s) ==
    /\ l \in ReactiveSrc
    /\ s # src[l]
    /\ src' = [src EXCEPT ![l] = s]
    /\ last' = Label("src", l, FALSE, 0, FALSE)
    /\ Tick
    /\ UNCHANGED <<hasDoc, scripts, promises, _promise, scriptTag, styleVars, opened>>

\* ------------------------------------------------------------ useStyleTag

\* document.getElementById(i): the first element in the document whose id is
\* i, 0 when there is none.
GetElementById(i) ==
    LET hits == {e \in 1..Len(styles) : styles[e].attached /\ styles[e].id = i}
    IN  IF hits = {} THEN 0 ELSE Min(hits)

\* A load that starts a watcher whether or not the loader is loaded.
NeverLoaded(s) == FALSE

\* `if (isLoaded.value) return` of load(): the loader has its watcher already.
AlreadyLoaded(s) == isLoaded[s]

\* load() of style loader s.  The element is the one in the document with the
\* loader's id, else a new one, which gets the id and is appended; unless the
\* loader is loaded already, a watcher of cssRef is started, whose callback runs
\* at once (immediate: true) and writes the css into the element.  op is the
\* caller: load(), or the mounted hook.
StyleLoadBy(op, s) ==
    /\ last' = Label(op, s, FALSE, 0, ~opened[s])
    /\ Tick
    /\ opened' = [opened EXCEPT ![s] = styleDoc[s]]
    /\ UNCHANGED <<scriptVars, styleDoc, id, css>>
    /\ IF ~styleDoc[s]
       THEN UNCHANGED <<styles, isLoaded, watching, watchers, seen>>
       ELSE LET found == GetElementById(id[s])
                el == IF found = 0 THEN Len(styles) + 1 ELSE found
                appended == IF found = 0
                            THEN Append(styles,
                                   [id |-> id[s], attached |-> TRUE, text |-> ""])
                            ELSE styles
            IN  /\ found = 0 => Len(styles) < MaxStyles
                /\ IF AlreadyLoaded(s)
                   THEN /\ styles' = appended
                        /\ UNCHANGED <<isLoaded, watching, watchers, seen>>
                   ELSE /\ styles' = [appended EXCEPT ![el].text = css[s]]
                        /\ watching' = [watching EXCEPT ![s] = el]
                        /\ watchers' = [watchers EXCEPT ![s] = @ + 1]
                        /\ seen' = [seen EXCEPT ![s] = css[s]]
                        /\ isLoaded' = [isLoaded EXCEPT ![s] = TRUE]

\* load() called by the user of style loader s.
StyleLoad(s) == StyleLoadBy("styleLoad", s)

\* unload() of style loader s.  stop() ends the watcher; removeChild throws
\* when getElementById finds no element, and isLoaded then stays true.  op is
\* the caller: unload(), or the disposal of the loader's scope.
StyleUnloadBy(op, s) ==
    /\ last' = Label(op, s, FALSE, 0, FALSE)
    /\ Tick
    /\ opened' = [opened EXCEPT ![s] = FALSE]
    /\ UNCHANGED <<scriptVars, styleDoc, id, css, seen>>
    /\ IF ~styleDoc[s] \/ ~isLoaded[s]
       THEN UNCHANGED <<styles, isLoaded, watching, watchers>>
       ELSE LET el == GetElementById(id[s])
            IN  /\ watching' = [watching EXCEPT ![s] = 0]
                /\ watchers' = [watchers EXCEPT
                                  ![s] = IF watching[s] # 0 THEN @ - 1 ELSE @]
                /\ IF el = 0
                   THEN UNCHANGED <<styles, isLoaded>>
                   ELSE /\ styles' = [styles EXCEPT ![el].attached = FALSE]
                        /\ isLoaded' = [isLoaded EXCEPT ![s] = FALSE]

\* unload() called by the user of style loader s.
StyleUnload(s) == StyleUnloadBy("styleUnload", s)

\* The css ref of style loader s is assigned another value; an active watcher
\* is triggered and its job queued.
SetCss(s, v) ==
    /\ v # css[s]
    /\ css' = [css EXCEPT ![s] = v]
    /\ last' = Label("css", s, FALSE, 0, FALSE)
    /\ Tick
    /\ UNCHANGED <<scriptVars, styleDoc, id, styles, isLoaded, watching, watchers,
                   seen, opened>>

\* The reactive flush runs the queued job of loader s's watcher (the jobs of
\* several watchers in any order): the callback
\* runs when the watcher is active and the value differs from the one it last
\* ran with, and writes the value into the element the watcher closed over.
Flush(s) ==
    /\ watching[s] # 0
    /\ css[s] # seen[s]
    /\ styles' = [styles EXCEPT ![watching[s]].text = css[s]]
    /\ seen' = [seen EXCEPT ![s] = css[s]]
    /\ last' = Label("flush", s, FALSE, 0, FALSE)
    /\ Tick
    /\ UNCHANGED <<scriptVars, styleDoc, id, css, isLoaded, watching, watchers,
                   opened>>

\* --------------------------------------------------------------- lifecycle

Loaders == ScriptLoaders \cup StyleLoaders

\* The loaders created in the setup of a component; the others are under the
\* manual control of their user.
InComponent == {"A", "S"}

\* A lifecycle event of the component of loader l for which the loader
\* registered no callback.
Idle(op, l) ==
    /\ last' = Label(op, l, FALSE, 0, FALSE)
    /\ Tick
    /\ UNCHANGED <<scriptVars, styleVars, opened>>

\* A script loader that registers load for the mounted hook whatever its
\* immediate option says.
MountUnlessManual(l) ==
    /\ phase[l] = "setup"
    /\ IF ~manual[l] THEN LoadBy("mounted", l, TRUE) ELSE Idle("mounted", l)

\* The component of script loader l is mounted: load, registered by
\* tryOnMounted when immediate and not manual, runs with no argument.
Mount(l) ==
    /\ phase[l] = "setup"
    /\ IF immediate[l] /\ ~manual[l]
       THEN LoadBy("mounted", l, TRUE)
       ELSE Idle("mounted", l)

\* The component of script loader l is unmounted: unload, registered by
\* tryOnUnmounted when not manual, runs.
Unmount(l) ==
    /\ phase[l] = "mounted"
    /\ IF ~manual[l] THEN UnloadBy("unmounted", l) ELSE Idle("unmounted", l)

\* The component of style loader s is mounted: load, registered by
\* tryOnMounted when immediate and not manual, runs.
StyleMount(s) ==
    /\ phase[s] = "setup"
    /\ IF immediate[s] /\ ~manual[s]
       THEN StyleLoadBy("mounted", s)
       ELSE Idle("mounted", s)

\* The scope of style loader s is disposed of (its component is unmounted):
\* unload, registered by tryOnScopeDispose when not manual, runs.
StyleDispose(s) ==
    /\ phase[s] # "unmounted"
    /\ IF ~manual[s] THEN StyleUnloadBy("unmounted", s) ELSE Idle("unmounted", s)

\* --------------------------------------------------------- vOnClickOutside

\* onClickOutside(el, handler, options): one more registration, of the handler
\* on target el; the function it returns cancels that registration.
OnClickOutside(el, capture) ==
    Append(registrations, [el |-> el, capture |-> capture, active |-> TRUE])

\* The capture option the directive passes on: `!binding.modifiers.bubble`,
\* over which Object.assign lays the options of the array form.
Capture(value, bubble) ==
    IF value.form = "array" /\ value.capture # "unset"
    THEN value.capture = "true"
    ELSE ~bubble

\* The mounted hook of a binding of the directive on el: the function
\* onClickOutside returns is stored on the element.
mounted(el, value, bubble) ==
    /\ Len(registrations) < MaxRegs
    /\ bound[el] < MaxBindings
    /\ registrations' = OnClickOutside(el, Capture(value, bubble))
    /\ __onClickOutside_stop' =
          [__onClickOutside_stop EXCEPT ![el] = Len(registrations) + 1]
    /\ bound' = [bound EXCEPT ![el] = @ + 1]
    /\ last' = Label("vMounted", el, FALSE, 0, FALSE)
    /\ UNCHANGED <<scriptVars, styleVars, lifeVars, opened, steps>>

\* The unmounted hook of a mounted binding of the directive on el: the
\* function stored on the element is called.
unmounted(el) ==
    /\ bound[el] > 0
    /\ registrations' =
          [registrations EXCEPT ![__onClickOutside_stop[el]].active = FALSE]
    /\ bound' = [bound EXCEPT ![el] = @ - 1]
    /\ last' = Label("vUnmounted", el, FALSE, 0, FALSE)
    /\ UNCHANGED <<scriptVars, styleVars, lifeVars, __onClickOutside_stop,
                   opened, steps>>

\* ------------------------------------------------------------------ system

\* The loaders as constructed: nothing loaded, the document empty.  Script
\* loader A has a document; B has one or runs without (server-side rendering).
\* Style loader S has a document and the id x; T has a document and the same or
\* another id, or runs without a document.
InitLoaders ==
    /\ hasDoc \in {[l \in ScriptLoaders |-> TRUE],
                   [l \in ScriptLoaders |-> l = "A"]}
    /\ src = [l \in ScriptLoaders |-> "a.js"]
    /\ scripts = <<>>
    /\ promises = <<>>
    /\ _promise = [l \in ScriptLoaders |-> 0]
    /\ scriptTag = [l \in ScriptLoaders |-> 0]
    /\ \E d \in BOOLEAN, i \in StyleIds :
          /\ d \/ i = "y"
          /\ styleDoc = [s \in StyleLoaders |-> s = "S" \/ d]
          /\ id = [s \in StyleLoaders |-> IF s = "S" THEN "x" ELSE i]
    /\ css = [s \in StyleLoaders |-> "p"]
    /\ styles = <<>>
    /\ isLoaded = [s \in StyleLoaders |-> FALSE]
    /\ watching = [s \in StyleLoaders |-> 0]
    /\ watchers = [s \in StyleLoaders |-> 0]
    /\ seen = [s \in StyleLoaders |-> "p"]
    /\ opened = [s \in StyleLoaders |-> FALSE]
    /\ phase = [l \in Loaders |-> "setup"]
    /\ registrations = <<>>
    /\ __onClickOutside_stop = [el \in Els |-> 0]
    /\ bound = [el \in Els |-> 0]
    /\ last = Label("init", "-", FALSE, 0, FALSE)

\* Every loader under the manual control of its user (manual: true): no
\* lifecycle hook calls load or unload.
ManualControl ==
    /\ immediate = [l \in Loaders |-> TRUE]
    /\ manual = [l \in Loaders |-> TRUE]

Init == InitLoaders /\ ManualControl /\ steps = 0

\* The script loaders beside idle style loaders.
InitScript ==
    /\ InitLoaders
    /\ ManualControl
    /\ styleDoc = [s \in StyleLoaders |-> TRUE]
    /\ id = [s \in StyleLoaders |-> "x"]
    /\ steps = -1

\* The style loaders beside idle script loaders.
InitStyle ==
    /\ InitLoaders
    /\ ManualControl
    /\ hasDoc = [l \in ScriptLoaders |-> TRUE]
    /\ steps = -1

\* Script loader A and style loader S in components, with any immediate and
\* manual options; B and T under manual control.  All have a document, and the
\* style loaders have ids of their own.
InitLife ==
    /\ InitLoaders
    /\ hasDoc = [l \in ScriptLoaders |-> TRUE]
    /\ styleDoc = [s \in StyleLoaders |-> TRUE]
    /\ id = [s \in StyleLoaders |-> IF s = "S" THEN "x" ELSE "y"]
    /\ \E i \in [InComponent -> BOOLEAN], m \in [InComponent -> BOOLEAN] :
          /\ immediate = [l \in Loaders |-> IF l \in InComponent THEN i[l] ELSE TRUE]
          /\ manual = [l \in Loaders |-> IF l \in InComponent THEN m[l] ELSE TRUE]
    /\ steps = 0

\* The directive beside idle loaders.
InitDirective ==
    /\ InitScript
    /\ hasDoc = [l \in ScriptLoaders |-> TRUE]

ScriptNext ==
    \/ \E l \in ScriptLoaders, w \in BOOLEAN : Load(l, w)
    \/ \E l \in ScriptLoaders : Unload(l)
    \/ \E e \in 1..MaxOps, ev \in Events : Emit(e, ev)
    \/ \E l \in ScriptLoaders, s \in Srcs : ChangeSrc(l, s)

StyleNext ==
    \/ \E s \in StyleLoaders : StyleLoad(s)
    \/ \E s \in StyleLoaders : StyleUnload(s)
    \/ \E s \in StyleLoaders, v \in CssValues : SetCss(s, v)
    \/ \E s \in StyleLoaders : Flush(s)

Next == ScriptNext \/ StyleNext

\* The hooks of the bindings of the directive.
DirectiveNext ==
    \/ \E el \in Els, value \in BindingValues, bubble \in BOOLEAN :
          mounted(el, value, bubble)
    \/ \E el \in Els : unmounted(el)

\* The lifecycle events of the components the loaders were created in.
LifeNext ==
    \/ \E l \in ScriptLoaders \cap InComponent : Mount(l)
    \/ \E l \in ScriptLoaders \cap InComponent : Unmount(l)
    \/ \E s \in StyleLoaders \cap InComponent : StyleMount(s)
    \/ \E s \in StyleLoaders \cap InComponent : StyleDispose(s)

\* The calls the users of the loaders in components make, and the events of
\* the script elements.
UserNext ==
    \/ \E l \in ScriptLoaders \cap InComponent, w \in BOOLEAN : Load(l, w)
    \/ \E l \in ScriptLoaders \cap InComponent : Unload(l)
    \/ \E e \in 1..MaxOps, ev \in Events : Emit(e, ev)
    \/ \E s \in StyleLoaders \cap InComponent : StyleLoad(s)
    \/ \E s \in StyleLoaders \cap InComponent : StyleUnload(s)

NextLife == LifeNext \/ UserNext

\* Script and style loaders together on the one document, in every
\* interleaving of at most MaxSteps calls and events.
Spec == Init /\ [][Next]_vars

\* The script loaders alone, in runs of any length.
SpecScript == InitScript /\ [][ScriptNext]_vars

\* Every script element emits its one event: load, error or abort.
EveryElementEmits ==
    \A e \in 1..MaxOps : WF_vars(\E ev \in Events : Emit(e, ev))

\* The script loaders alone, where no element withholds its event for ever.
SpecScriptFair == InitScript /\ [][ScriptNext]_vars /\ EveryElementEmits

\* The style loaders alone, in runs of any length.
SpecStyle == InitStyle /\ [][StyleNext]_vars

\* The directive alone, in runs of any length.
SpecDirective == InitDirective /\ [][DirectiveNext]_vars

\* The loaders in their components: lifecycle events among the calls and
\* events, in every interleaving of at most MaxSteps steps.
SpecLife == InitLife /\ [][NextLife]_vars

\* ------------------------------------------------------------------ claims

Attached(e) == e \in 1..Len(scripts) /\ scripts[e].attached

\* C1 as stated: while the promise of a script loader with a document is
\* pending, the load() calls made since the last unload() have created and
\* appended exactly one script element.
C1_ExactlyOneCreated ==
    \A l \in ScriptLoaders :
        (hasDoc[l] /\ _promise[l] # 0 /\ promises[_promise[l]].state = "pending")
            => promises[_promise[l]].created

\* C1, amended: a load() that finds the memoized promise pending returns that
\* promise and creates, appends and starts nothing; a load() that finds no
\* memoized promise creates exactly one script element when the loader has a
\* document that holds no script element with the loader's src, and none
\* otherwise, and returns the promise it memoizes.
C1_LoadIdempotent ==
    [][\A l \in ScriptLoaders :
          (last'.op = "load" /\ last'.loader = l) =>
             /\ (_promise[l] # 0 /\ promises[_promise[l]].state = "pending") =>
                   /\ last'.ret = _promise[l]
                   /\ _promise'[l] = _promise[l]
                   /\ scripts' = scripts
                   /\ promises' = promises
             /\ _promise[l] = 0 =>
                   /\ Len(scripts') = Len(scripts) +
                         (IF hasDoc[l] /\ QuerySelector(src[l]) = 0 THEN 1 ELSE 0)
                   /\ last'.ret = _promise'[l]
                   /\ _promise'[l] = Len(promises')]_vars

\* A repeated load() has returned the pending promise of the operation that
\* created the loader's element.
C1_Witness ==
    /\ last.op = "load" /\ ~last.fresh
    /\ promises[last.ret].state = "pending"
    /\ promises[last.ret].created

\* C2: the document holds at most one script element per src and at most one
\* style element per id.
C2_OnePerIdentity ==
    /\ \A e1, e2 \in 1..Len(scripts) :
          (scripts[e1].attached /\ scripts[e2].attached
             /\ scripts[e1].src = scripts[e2].src) => e1 = e2
    /\ \A e1, e2 \in 1..Len(styles) :
          (styles[e1].attached /\ styles[e2].attached
             /\ styles[e1].id = styles[e2].id) => e1 = e2

\* Two script loaders with the same src have loaded, and so have two style
\* loaders with the same id.
C2_Witness ==
    /\ \A l \in ScriptLoaders : hasDoc[l] /\ _promise[l] # 0 /\ src[l] = "a.js"
    /\ \A s \in StyleLoaders : isLoaded[s] /\ id[s] = "x"
    /\ \E e \in 1..Len(scripts) : scripts[e].attached
    /\ \E e \in 1..Len(styles) : styles[e].attached

\* C3 as stated: whatever the waitForScriptLoad of the operation, once its
\* script element has emitted error or abort the promise is rejected.
C3_RejectsOnError ==
    \A p \in 1..Len(promises) :
        (promises[p].el # 0 /\ scripts[promises[p].el].emitted = "failed")
            => promises[p].state = "rejected"

\* C3, amended: when a script element emits error or abort, the promise of
\* every operation that was started on it with waitForScriptLoad = true before
\* the event is rejected, and a rejected promise stays rejected.
C3_WaitingRejectsOnError ==
    [][/\ \A e \in 1..Len(scripts), p \in 1..Len(promises) :
             (/\ scripts[e].emitted = "none"
              /\ scripts'[e].emitted = "failed"
              /\ promises[p].el = e
              /\ promises[p].wait) => promises'[p].state = "rejected"
       /\ \A p \in 1..Len(promises) :
             promises[p].state = "rejected" => promises'[p] = promises[p]]_vars

\* An operation started with waitForScriptLoad = true was rejected by the event
\* of its element.
C3_Witness ==
    /\ last.op = "emit"
    /\ \E p \in 1..Len(promises) :
          /\ promises[p].wait /\ promises[p].state = "rejected"
          /\ scripts[promises[p].el].emitted = "failed"

\* C4: a load() that starts an operation while the document holds a script
\* element with the loader's src that is marked data-loaded returns a promise
\* already resolved with that element (also with waitForScriptLoad = true), sets
\* scriptTag to it, and creates and appends no element.
C4_FoundLoadedResolves ==
    [][\A l \in ScriptLoaders :
          (/\ last'.op = "load" /\ last'.loader = l
           /\ _promise[l] = 0 /\ hasDoc[l]
           /\ QuerySelector(src[l]) # 0
           /\ scripts[QuerySelector(src[l])].loaded) =>
              /\ promises'[last'.ret].state = "resolved"
              /\ promises'[last'.ret].value = QuerySelector(src[l])
              /\ scriptTag'[l] = QuerySelector(src[l])
              /\ scripts' = scripts]_vars

\* A load(true) found an element marked data-loaded that another operation had
\* created.
C4_Witness ==
    /\ last.op = "load" /\ last.fresh /\ last.wait
    /\ ~promises[last.ret].created
    /\ promises[last.ret].el # 0
    /\ scripts[promises[last.ret].el].loaded
    /\ promises[last.ret].state = "resolved"

\* C5 as stated: when load(false) returns on a loader with a document, the
\* promise is resolved, its script element is in the document and has emitted
\* no event.
C5_NoWaitResolvesFirst ==
    (last.op = "load" /\ ~last.wait /\ hasDoc[last.loader]) =>
        /\ promises[last.ret].state = "resolved"
        /\ Attached(promises[last.ret].value)
        /\ scripts[promises[last.ret].value].emitted = "none"

\* C5, amended: when a load(false) that starts an operation returns on a loader
\* with a document, the promise is resolved with the script element, which is
\* in the document and is the loader's scriptTag; an element the operation
\* created has emitted no event.
C5_FreshNoWaitResolves ==
    (last.op = "load" /\ last.fresh /\ ~last.wait /\ hasDoc[last.loader]) =>
        /\ promises[last.ret].state = "resolved"
        /\ promises[last.ret].value = promises[last.ret].el
        /\ Attached(promises[last.ret].value)
        /\ scriptTag[last.loader] = promises[last.ret].value
        /\ promises[last.ret].created =>
              scripts[promises[last.ret].value].emitted = "none"

\* A load(false) started an operation that created its element.
C5_Witness ==
    /\ last.op = "load" /\ last.fresh /\ ~last.wait /\ hasDoc[last.loader]
    /\ promises[last.ret].created

\* The elements of loader l's earlier load cycles.
EarlierElements(l) ==
    {promises[q].el : q \in {q \in 1..Len(promises) :
                               promises[q].loader = l /\ q < _promise[l]}}
        \ {0, promises[_promise[l]].el}

\* C6: once a script loader was unloaded and loaded again, its scriptTag does
\* not refer to the element of an earlier load cycle.
C6_NoStaleHandle ==
    \A l \in ScriptLoaders :
        _promise[l] # 0 => scriptTag[l] \notin EarlierElements(l)

\* C7: when unload() has returned on a script loader with a document, no
\* element that the loader's load() appended is in the document, scriptTag is
\* null and the memoized promise is cleared.
C7_UnloadRemoves ==
    (last.op = "unload" /\ hasDoc[last.loader]) =>
        /\ _promise[last.loader] = 0
        /\ scriptTag[last.loader] = 0
        /\ \A p \in 1..Len(promises) :
              (promises[p].loader = last.loader /\ promises[p].created)
                  => ~scripts[promises[p].el].attached

\* C8: without a document, load() of a script loader returns a promise resolved
\* with false, which stays so, and creates no element and sets no scriptTag;
\* unload() of the script loader and load() and unload() of a style loader
\* change nothing of the loaders and the document.
C8_NoDocumentNoOp ==
    [][/\ (last'.op = "load" /\ ~hasDoc[last'.loader]) =>
             /\ promises'[last'.ret].state = "resolved"
             /\ promises'[last'.ret].value = 0
             /\ promises'[last'.ret].el = 0
             /\ UNCHANGED <<scripts, scriptTag, styleVars>>
       /\ \A p \in 1..Len(promises) :
             promises[p].el = 0 => promises'[p] = promises[p]
       /\ (last'.op = "unload" /\ ~hasDoc[last'.loader]) =>
             UNCHANGED <<scriptVars, styleVars>>
       /\ (last'.op \in {"styleLoad", "styleUnload"} /\ ~styleDoc[last'.loader]) =>
             UNCHANGED <<scriptVars, styleVars>>]_vars

\* A script loader without a document has loaded, and a style loader without
\* a document has just been called.
C8_Witness ==
    /\ \E l \in ScriptLoaders :
          /\ ~hasDoc[l] /\ _promise[l] # 0
          /\ promises[_promise[l]].state = "resolved"
          /\ promises[_promise[l]].value = 0
    /\ last.op \in {"styleLoad", "styleUnload"}
    /\ ~styleDoc[last.loader]
    /\ \E s \in StyleLoaders : isLoaded[s]

\* C9: right after the first load() since a style loader's last unload(), and
\* right after every flush that runs its watcher, the text of the loader's
\* style element is the current css value.
C9_ContentFollowsCss ==
    /\ (last.op = "styleLoad" /\ last.fresh /\ styleDoc[last.loader]) =>
          /\ GetElementById(id[last.loader]) # 0
          /\ styles[GetElementById(id[last.loader])].text = css[last.loader]
    /\ last.op = "flush" =>
          styles[watching[last.loader]].text = css[last.loader]

\* C10 as stated: unload() clears the memoized promise, so that the next load()
\* starts a new operation.
C10_UnloadClears ==
    last.op = "unload" => _promise[last.loader] = 0

\* C10, amended: the memoized promise changes only when load() finds none and
\* memoizes a new one, and when unload() of a loader with a document clears
\* it; a load() that finds one, in whatever state, returns it and creates no
\* element and no promise; unload() without a document leaves it.
C10_ClearedOnlyByUnload ==
    [][\A l \in ScriptLoaders :
          /\ _promise'[l] # _promise[l] =>
                \/ /\ last'.op = "unload" /\ last'.loader = l /\ hasDoc[l]
                   /\ _promise'[l] = 0
                \/ /\ last'.op = "load" /\ last'.loader = l /\ last'.fresh
                   /\ _promise[l] = 0
                   /\ _promise'[l] = Len(promises) + 1
          /\ (last'.op = "load" /\ last'.loader = l /\ _promise[l] # 0) =>
                /\ last'.ret = _promise[l] /\ ~last'.fresh
                /\ UNCHANGED <<scripts, promises, _promise>>
          /\ (last'.op = "load" /\ last'.loader = l /\ _promise[l] = 0) =>
                /\ last'.fresh /\ last'.ret = Len(promises) + 1
                /\ Len(promises') = Len(promises) + 1
          /\ (last'.op = "unload" /\ last'.loader = l) =>
                _promise'[l] = IF hasDoc[l] THEN 0 ELSE _promise[l]]_vars

\* A load() after a failure has returned the rejected promise.
C10_Witness ==
    /\ last.op = "load" /\ ~last.fresh
    /\ promises[last.ret].state = "rejected"

\* C11: a mounted hook runs load (which returns the loader's promise; a style
\* loader with a document is loaded after it) exactly when immediate is true
\* and manual is false, an unmounted hook or scope disposal runs unload exactly
\* when manual is false, and a hook that runs neither changes nothing of the
\* loaders or the document; so with manual true no lifecycle event does.
C11_HooksFollowOptions ==
    [][\A l \in Loaders :
          /\ (phase[l] = "setup" /\ phase'[l] = "mounted") =>
                IF immediate[l] /\ ~manual[l]
                THEN IF l \in ScriptLoaders
                     THEN /\ last'.ret # 0
                          /\ _promise'[l] = last'.ret
                          /\ promises'[last'.ret].wait
                                 \/ last'.ret \in 1..Len(promises)
                     ELSE styleDoc[l] =>
                             isLoaded'[l] /\ GetElementById(id[l])' # 0
                ELSE UNCHANGED <<scriptVars, styleVars>>
          /\ (phase[l] # "unmounted" /\ phase'[l] = "unmounted") =>
                IF ~manual[l]
                THEN IF l \in ScriptLoaders
                     THEN hasDoc[l] => _promise'[l] = 0 /\ scriptTag'[l] = 0
                     ELSE (styleDoc[l] /\ isLoaded[l]) =>
                             /\ watching'[l] = 0
                             /\ GetElementById(id[l]) # 0 => ~isLoaded'[l]
                ELSE UNCHANGED <<scriptVars, styleVars>>]_vars

\* A loader in a component with immediate true and manual false was loaded on
\* mount (its promise exists) and has just been unloaded by the unmounted hook.
C11_Witness ==
    /\ last.op = "unmounted"
    /\ last.loader = "A"
    /\ immediate["A"] /\ ~manual["A"]
    /\ Len(promises) > 0 /\ promises[1].loader = "A" /\ promises[1].wait
    /\ _promise["A"] = 0

\* C12 as stated: when load(true) returns on a loader with a document, the
\* promise it returns is resolved only if its element has emitted load (an
\* element marked data-loaded has).
C12_WaitingCallResolvesOnLoad ==
    (last.op = "load" /\ last.wait /\ hasDoc[last.loader]
        /\ promises[last.ret].state = "resolved")
        => scripts[promises[last.ret].el].emitted = "load"

\* C12, amended: the promise of an operation that was started with
\* waitForScriptLoad true on a loader with a document is resolved only if its
\* element has emitted load and is marked data-loaded, and then with that
\* element.
C12_WaitingOperationResolvesOnLoad ==
    \A p \in 1..Len(promises) :
        (promises[p].wait /\ hasDoc[promises[p].loader]
            /\ promises[p].state = "resolved")
            => /\ scripts[promises[p].el].emitted = "load"
               /\ scripts[promises[p].el].loaded
               /\ promises[p].value = promises[p].el

\* A promise of an operation started with waitForScriptLoad true that created
\* its element has just been resolved by the element's load event.
C12_Witness ==
    /\ last.op = "emit"
    /\ \E p \in 1..Len(promises) :
          /\ promises[p].wait /\ promises[p].created
          /\ promises[p].state = "resolved"

\* C13: unload() settles no promise, and a promise that was pending when its
\* loader was unloaded is still settled by the event its element emits
\* afterwards: resolved by load, rejected by error or abort.
C13_UnloadLeavesPromise ==
    [][/\ last'.op = "unload" => promises' = promises
       /\ \A p \in 1..Len(promises) :
             (/\ last'.op = "emit"
              /\ promises[p].state = "pending"
              /\ _promise[promises[p].loader] # p
              /\ scripts[promises[p].el].emitted = "none"
              /\ scripts'[promises[p].el].emitted # "none")
                => promises'[p].state =
                      IF scripts'[promises[p].el].emitted = "load"
                      THEN "resolved" ELSE "rejected"]_vars

\* The only script element was removed by unload() while the promise of the
\* operation that created it was pending, and has now emitted load, which
\* resolved the promise.
C13_Witness ==
    /\ last.op = "emit"
    /\ Len(scripts) = 1 /\ ~scripts[1].attached /\ scripts[1].emitted = "load"
    /\ Len(promises) = 1 /\ promises[1].wait /\ promises[1].created
    /\ promises[1].state = "resolved"
    /\ _promise[promises[1].loader] = 0

\* C14: when a step changes a loader's scriptTag from null to an element, that
\* element has emitted load (one found marked data-loaded has), or the step is
\* a load(false) of that loader that started an operation; and an element
\* marked data-loaded has emitted load.
C14_ReadyOnSignal ==
    [][/\ \A l \in ScriptLoaders :
             (scriptTag[l] = 0 /\ scriptTag'[l] # 0)
                => \/ scripts'[scriptTag'[l]].emitted = "load"
                   \/ /\ last'.op = "load" /\ last'.loader = l
                      /\ ~last'.wait /\ last'.fresh
       /\ \A e \in 1..Len(scripts') :
             scripts'[e].loaded => scripts'[e].emitted = "load"]_vars

\* A loader that waits for the load event has just had its scriptTag set by
\* the load event of its element.
C14_Witness ==
    /\ last.op = "emit"
    /\ \E l \in ScriptLoaders :
          /\ scriptTag[l] # 0
          /\ scripts[scriptTag[l]].loaded
          /\ _promise[l] # 0
          /\ promises[_promise[l]].wait
          /\ promises[_promise[l]].el = scriptTag[l]

\* C15 as stated: unload() of a loaded style loader leaves its watcher
\* stopped, no element with the loader's id in the document and isLoaded
\* false; unload() of a loader that is not loaded changes nothing.
C15_UnloadStopsAndRemoves ==
    [][\A s \in StyleLoaders :
          (last'.op = "styleUnload" /\ last'.loader = s) =>
              IF styleDoc[s] /\ isLoaded[s]
              THEN /\ watching'[s] = 0
                   /\ GetElementById(id[s])' = 0
                   /\ ~isLoaded'[s]
              ELSE UNCHANGED styleVars]_vars

\* C16 as stated: once every binding of the directive on an element has had
\* its unmounted hook, no registration the directive made for that element is
\* active.
C16_NoneActiveAfterUnmounted ==
    \A el \in Els :
        bound[el] = 0 =>
            \A r \in 1..Len(registrations) :
                registrations[r].el = el => ~registrations[r].active

\* C17 as stated: the element a loader's scriptTag refers to is in the
\* document.
C17_ScriptTagAttached ==
    \A l \in ScriptLoaders :
        scriptTag[l] # 0 => scripts[scriptTag[l]].attached

\* C18 as stated: where every script element emits its event, the promise of
\* every operation started with waitForScriptLoad true is settled in the end.
C18_WaitingPromiseSettles ==
    \A p \in 1..MaxOps :
        [](p \in 1..Len(promises) /\ promises[p].wait
              => <>(p \in 1..Len(promises) /\ promises[p].state # "pending"))

\* C19 as stated: where the two style loaders have the same id, a loader
\* whose isLoaded is true has an element with that id in the document, and its
\* watcher writes to that element.
C19_LoadedHasElement ==
    id["S"] = id["T"] =>
        \A s \in StyleLoaders :
            isLoaded[s] =>
                /\ GetElementById(id[s]) # 0
                /\ watching[s] = GetElementById(id[s])

\* The elements in the document that have the id of style loader s.
WithIdOf(s) == {e \in 1..Len(styles) : styles[e].attached /\ styles[e].id = id[s]}

\* C20: for a style loader whose id no other loader has, after every step the
\* loader has one active watcher when isLoaded is true and none when it is
\* false, and at most one element with its id is in the document; a load()
\* of a loaded loader creates no element and starts no watcher.
C20_OneWatcherOneElement ==
    [][id["S"] # id["T"] =>
          \A s \in StyleLoaders :
              /\ watchers'[s] = IF isLoaded'[s] THEN 1 ELSE 0
              /\ Cardinality(WithIdOf(s)') <= 1
              /\ (last'.op = "styleLoad" /\ last'.loader = s /\ isLoaded[s])
                    => /\ Len(styles') = Len(styles)
                       /\ watchers'[s] = watchers[s]
                       /\ watching'[s] = watching[s]]_vars

\* A loader with an id of its own has just had load() called again while
\* loaded: it has one watcher and one element in the document.
C20_Witness ==
    /\ id["S"] # id["T"]
    /\ last.op = "styleLoad" /\ ~last.fresh
    /\ isLoaded[last.loader]
    /\ watchers[last.loader] = 1
    /\ Cardinality(WithIdOf(last.loader)) = 1

====
